---- MODULE Spec2Model ----
(***************************************************************************)
(* SalesBot.ipynb: review summarization and RAG sales assistant.           *)
(*                                                                         *)
(* The notebook is a sequence of cells run against one kernel namespace.   *)
(* Each cell (and each function a cell defines) is modelled as its own     *)
(* little state machine over the names it reads and writes:                *)
(*   SpecAgg   the review_dict construction cell                           *)
(*   SpecSum   the summarization loop cell                                 *)
(*   SpecIng   the Weaviate ingestion cell (it may be run again)           *)
(*   SpecChat  predict / get_context driven by gr.ChatInterface            *)
(* The hosted services (chat completion, Weaviate) are the environment:    *)
(* what they answer is chosen nondeterministically.                        *)
(***************************************************************************)
EXTENDS Integers, Sequences, FiniteSets, TLC

VARIABLES
    \* ---- kernel names of the aggregation cell
    df,                     \* the review table: rows of (asin, unixReviewTime, reviewText)
    product_record_limit,
    asin_list_defined,      \* is the name asin_list bound in the kernel?
    asin_list,
    review_dict,            \* insertion-ordered dict: sequence of [asin, reviews]
    agg_pc, agg_i,
    \* ---- summarization cell
    review_summaries,       \* list of dicts, then the DataFrame built from it
    counter,
    sum_pc, sum_i,
    requests,               \* chat-completion calls issued: [asin, reviews]
    skipped,                \* ASINs printed as 'Issue with ASIN ..., skipping'
    answers,                \* what the service answered, product by product
    response_asins,         \* the ASIN each answer carried, 0 when it carried none
    \* ---- ingestion cell
    data_list, items_to_insert,
    ing_pc, ing_i,
    insert_calls,           \* insert_many calls in call order: [batch, raised]
    store,                  \* objects of the "Products" collection
    \* ---- predict
    history, message,
    history_openai_format,
    stream,                 \* chunks of the streaming response not yet received
    received,               \* chunks already received
    partial_message,
    yielded,                \* strings yielded so far by the generator
    chat_pc,
    \* ---- get_context
    ctx_limit,              \* the limit argument
    ctx_objects,            \* response.objects of the hybrid query
    ctx_result,             \* the string returned
    ctx_pc

aggVars  == <<df, product_record_limit, asin_list_defined, asin_list, agg_pc, agg_i>>
sumVars  == <<counter, sum_pc, sum_i, requests, skipped, answers, response_asins>>
ingVars  == <<data_list, items_to_insert, ing_pc, ing_i, insert_calls>>
chatVars == <<history, message, history_openai_format, stream, received,
              partial_message, yielded, chat_pc>>
ctxVars  == <<ctx_limit, ctx_objects, ctx_result, ctx_pc>>
vars == <<aggVars, review_dict, sumVars, review_summaries, ingVars, store, chatVars, ctxVars>>

\* what a cell leaves alone: the names of the other cells
notAgg  == <<sumVars, review_summaries, ingVars, store, chatVars, ctxVars>>
notSum  == <<aggVars, ingVars, store, chatVars, ctxVars>>
notIng  == <<aggVars, review_dict, sumVars, chatVars, ctxVars>>
notChat == <<aggVars, review_dict, sumVars, review_summaries, ingVars, ctxVars>>
notCtx  == <<aggVars, review_dict, sumVars, review_summaries, ingVars, store, chatVars>>

-----------------------------------------------------------------------------
(* Bounds of the model *)

NumAsins == 3        \* product identifiers are 1..NumAsins
NumTimes == 2        \* unixReviewTime values are 1..NumTimes
MaxRows == 4         \* rows of the review table
MaxLimit == 3        \* product_record_limit ranges over 0..MaxLimit

Asins == 1..NumAsins
Times == 1..NumTimes

-----------------------------------------------------------------------------
(* Python helpers *)

Min(a, b) == IF a < b THEN a ELSE b

\* s[lo:hi] for 0 <= lo, 0 <= hi
PySlice(s, lo, hi) == SubSeq(s, lo + 1, Min(hi, Len(s)))

Range(s) == {s[i] : i \in DOMAIN s}

\* the set of sequences over S of length at most n
SeqsUpTo(S, n) == UNION {[1..k -> S] : k \in 0..n}

-----------------------------------------------------------------------------
(* Review aggregation: asin_list and the review_dict cell *)

\* a row of the table; reviewText is the row's own text, identified by its position
Row(a, t, k) == [asin |-> a, unixReviewTime |-> t, reviewText |-> k]

Datasets ==
    {[i \in DOMAIN f |-> Row(f[i][1], f[i][2], i)] : f \in SeqsUpTo(Asins \X Times, MaxRows)}

\* df.asin.unique(): the distinct values in order of first appearance
RECURSIVE Unique(_)
Unique(s) ==
    IF s = <<>> THEN <<>>
    ELSE LET front == Unique(SubSeq(s, 1, Len(s) - 1))
             last == s[Len(s)]
         IN IF last \in Range(front) THEN front ELSE Append(front, last)

AsinColumn(d) == [i \in DOMAIN d |-> d[i].asin]

\* df.loc[df['asin'] == asin]
RowsOf(d, a) == SelectSeq(d, LAMBDA r : r.asin = a)

\* one insertion of sort_values(ascending=False); the default sort kind is
\* not stable, so rows of equal time may end either way round (tiesFirst)
RECURSIVE InsertDesc(_, _, _)
InsertDesc(r, sorted, tiesFirst) ==
    IF sorted = <<>> THEN <<r>>
    ELSE IF \/ r.unixReviewTime > sorted[1].unixReviewTime
            \/ (tiesFirst /\ r.unixReviewTime = sorted[1].unixReviewTime)
         THEN <<r>> \o sorted
         ELSE <<sorted[1]>> \o InsertDesc(r, Tail(sorted), tiesFirst)

RECURSIVE SortValuesDesc(_, _)
SortValuesDesc(rows, tiesFirst) ==
    IF rows = <<>> THEN <<>>
    ELSE InsertDesc(rows[Len(rows)],
                    SortValuesDesc(SubSeq(rows, 1, Len(rows) - 1), tiesFirst),
                    tiesFirst)

\* .reviewText.tolist()
ReviewTexts(rows) == [i \in DOMAIN rows |-> rows[i].reviewText]

\* d[k] = v on an insertion-ordered dict
DictSet(d, k, v) ==
    IF \E i \in DOMAIN d : d[i].asin = k
    THEN [i \in DOMAIN d |-> IF d[i].asin = k THEN [asin |-> k, reviews |-> v] ELSE d[i]]
    ELSE Append(d, [asin |-> k, reviews |-> v])

\* "review_dict = {}" then the evaluation of asin_list[0:product_record_limit];
\* asin_list is assigned only by the statement of cell 06554f51, which is a
\* markdown cell: unless the reader has run that statement, the name is
\* unbound and the cell stops with a NameError, review_dict left empty
AggregateStart ==
    /\ agg_pc = "ready"
    /\ review_dict' = <<>>
    /\ agg_i' = 0
    /\ agg_pc' = IF asin_list_defined THEN "loop" ELSE "NameError"
    /\ UNCHANGED <<df, product_record_limit, asin_list_defined, asin_list>>
    /\ UNCHANGED notAgg

\* one iteration of "for asin in asin_list[0:product_record_limit]"
AggregateStep ==
    /\ agg_pc = "loop"
    /\ agg_i < Len(PySlice(asin_list, 0, product_record_limit))
    /\ \E tiesFirst \in BOOLEAN :
        LET asin == PySlice(asin_list, 0, product_record_limit)[agg_i + 1]
            reviews == ReviewTexts(SortValuesDesc(RowsOf(df, asin), tiesFirst))
        IN review_dict' = DictSet(review_dict, asin, reviews)
    /\ agg_i' = agg_i + 1
    /\ UNCHANGED <<df, product_record_limit, asin_list_defined, asin_list, agg_pc>>
    /\ UNCHANGED notAgg

AggregateDone ==
    /\ agg_pc = "loop"
    /\ agg_i = Len(PySlice(asin_list, 0, product_record_limit))
    /\ agg_pc' = "done"
    /\ UNCHANGED <<df, product_record_limit, asin_list_defined, asin_list, agg_i, review_dict>>
    /\ UNCHANGED notAgg

-----------------------------------------------------------------------------
(* Summarization: the loop over review_dict.items() *)

TruncLimit == 20     \* review_list[0:20]
MaxReviews == 21     \* the first product's review count ranges over 0..MaxReviews

Keys == {"description", "name", "review_summary", "ASIN", "features"}

\* JSON values: a string carrying a payload, a number, null, and pandas' NaN
JStr(x) == [t |-> "str", v |-> x]
JNum == [t |-> "num", v |-> 0]
JNull == [t |-> "null", v |-> 0]
JNaN == [t |-> "nan", v |-> 0]

WrongAsin == NumAsins + 1     \* an ASIN the LLM made up, not a product of the table

\* class ProductRecord(BaseModel): five fields, each a str
ProductRecord(d) ==
    /\ DOMAIN d = Keys
    /\ \A k \in Keys : d[k].t = "str"

FullObject(a) == [k \in Keys |-> JStr(IF k = "ASIN" THEN a ELSE 1)]
PartialObject == [k \in {"description", "review_summary", "features"} |->
                      IF k = "features" THEN JNum ELSE JStr(1)]

\* what response.choices[0].message.content can hold: text that is not JSON
\* (for instance cut at max_tokens), a JSON array, or a JSON object
Contents(a) ==
    {[json |-> "malformed"], [json |-> "array"]}
    \cup {[json |-> "object", members |-> m] :
              m \in {FullObject(a), FullObject(WrongAsin), PartialObject}}

\* client.chat.completions.create(...): raises, or returns a response
Completions(a) ==
    {[raised |-> TRUE]} \cup {[raised |-> FALSE, content |-> c] : c \in Contents(a)}

\* json.loads: raises on malformed text, else the parsed value
LoadsRaises(c) == c.json = "malformed"
Loads(c) == IF c.json = "object" THEN [type |-> "dict", items |-> c.members]
            ELSE [type |-> "list"]

\* summary["ASIN"] = asin: a TypeError unless summary is a dict
SetItemRaises(value) == value.type # "dict"
\* faulty variant of SetAsin: an ASIN the answer already carries is kept
SetAsinKeepsExisting(items, a) ==
    [k \in DOMAIN items \cup {"ASIN"} |->
        IF k \in DOMAIN items THEN items[k] ELSE JStr(a)]

SetAsin(items, a) ==
    [k \in DOMAIN items \cup {"ASIN"} |-> IF k = "ASIN" THEN JStr(a) ELSE items[k]]

\* faulty variant of SummaryRequest: the whole review list is sent
SummaryRequestUntruncated(a, review_list) ==
    [model |-> "llama-2-70b-chat", asin |-> a, reviews |-> review_list]

\* the user message: template.format(asin = asin, reviews = review_list[0:20])
SummaryRequest(a, review_list) ==
    [model |-> "llama-2-70b-chat", asin |-> a,
     reviews |-> PySlice(review_list, 0, TruncLimit)]

\* faulty variant of TryBody: text that fails to parse still leaves a record
TryBodyKeepsUnparsed(a, completion) ==
    IF completion.raised THEN [exc |-> TRUE]
    ELSE IF LoadsRaises(completion.content)
         THEN [exc |-> FALSE, summary |-> [k \in {"ASIN"} |-> JStr(a)]]
    ELSE IF SetItemRaises(Loads(completion.content)) THEN [exc |-> TRUE]
    ELSE [exc |-> FALSE, summary |-> SetAsin(Loads(completion.content).items, a)]

\* the body of the try block for one answer of the service:
\* exc = an exception reached the bare except; summary = the dict appended
TryBody(a, completion) ==
    IF completion.raised THEN [exc |-> TRUE]
    ELSE IF LoadsRaises(completion.content) THEN [exc |-> TRUE]
    ELSE IF SetItemRaises(Loads(completion.content)) THEN [exc |-> TRUE]
    ELSE [exc |-> FALSE, summary |-> SetAsin(Loads(completion.content).items, a)]

\* how the service answered one call: the call or json.loads raised, the
\* text was JSON but not an object, or it was a JSON object
AnswerClass(completion) ==
    IF completion.raised THEN "raised"
    ELSE IF completion.content.json = "malformed" THEN "raised"
    ELSE IF completion.content.json = "object" THEN "object"
    ELSE "non_object"

\* the "ASIN" member of the answer, 0 when the call raised, the text was not
\* a JSON object, or the object had no such member
ResponseAsin(completion) ==
    IF AnswerClass(completion) # "object" THEN 0
    ELSE IF "ASIN" \in DOMAIN completion.content.members
         THEN completion.content.members["ASIN"].v
         ELSE 0

\* "review_summaries = []; counter = 0"
SummarizeStart ==
    /\ sum_pc = "ready"
    /\ review_summaries' = <<>>
    /\ counter' = 0
    /\ sum_i' = 0
    /\ sum_pc' = "loop"
    /\ UNCHANGED <<review_dict, requests, skipped, answers, response_asins>>
    /\ UNCHANGED notSum

\* faulty variant of SummarizeStep: a failed call is issued a second time
SummarizeStepRetriesOnce ==
    /\ sum_pc = "loop"
    /\ sum_i < Len(review_dict)
    /\ LET asin == review_dict[sum_i + 1].asin
           review_list == review_dict[sum_i + 1].reviews
           request == SummaryRequest(asin, review_list)
       IN \E completion \in Completions(asin) :
               LET r == TryBody(asin, completion)
               IN /\ answers' = Append(answers, AnswerClass(completion))
                  /\ response_asins' = Append(response_asins, ResponseAsin(completion))
                  /\ IF r.exc
                     THEN /\ skipped' = Append(skipped, asin)
                          /\ requests' = requests \o <<request, request>>
                          /\ UNCHANGED review_summaries
                     ELSE /\ review_summaries' = Append(review_summaries, r.summary)
                          /\ requests' = Append(requests, request)
                          /\ UNCHANGED skipped
    /\ counter' = counter + 1
    /\ sum_i' = sum_i + 1
    /\ UNCHANGED <<review_dict, sum_pc>>
    /\ UNCHANGED notSum

\* one iteration of "for asin, review_list in review_dict.items()"
SummarizeStep ==
    /\ sum_pc = "loop"
    /\ sum_i < Len(review_dict)
    /\ LET asin == review_dict[sum_i + 1].asin
           review_list == review_dict[sum_i + 1].reviews
       IN /\ requests' = Append(requests, SummaryRequest(asin, review_list))
          /\ \E completion \in Completions(asin) :
               LET r == TryBody(asin, completion)
               IN /\ answers' = Append(answers, AnswerClass(completion))
                  /\ response_asins' = Append(response_asins, ResponseAsin(completion))
                  /\ IF r.exc
                     THEN /\ skipped' = Append(skipped, asin)
                          /\ UNCHANGED review_summaries
                     ELSE /\ review_summaries' = Append(review_summaries, r.summary)
                          /\ UNCHANGED skipped
    /\ counter' = counter + 1
    /\ sum_i' = sum_i + 1
    /\ UNCHANGED <<review_dict, sum_pc>>
    /\ UNCHANGED notSum

\* DataFrame(list of dicts): the columns are the union of the keys, a key a
\* row lacks is NaN
Columns(rows) == UNION {DOMAIN rows[i] : i \in DOMAIN rows}
DataFrame(rows) ==
    [i \in DOMAIN rows |->
        [k \in Columns(rows) |-> IF k \in DOMAIN rows[i] THEN rows[i][k] ELSE JNaN]]

\* "review_summaries = DataFrame(review_summaries)"
SummarizeDone ==
    /\ sum_pc = "loop"
    /\ sum_i = Len(review_dict)
    /\ review_summaries' = DataFrame(review_summaries)
    /\ sum_pc' = "done"
    /\ UNCHANGED <<review_dict, counter, sum_i, requests, skipped, answers, response_asins>>
    /\ UNCHANGED notSum

-----------------------------------------------------------------------------
(* Ingestion: the insert_many cell *)

BatchSize == 100     \* "if len(items_to_insert) == 100"
MaxRecords == 201    \* well-formed summaries handed to the cell: 0..MaxRecords
MaxStored == 202     \* the cell is run again only while the store stays this small

\* review_summaries.to_json(orient='records') then json.loads: one dict per
\* row holding every column, NaN written as null
ToJsonRecords(frame) ==
    [i \in DOMAIN frame |->
        [k \in DOMAIN frame[i] |-> IF frame[i][k].t = "nan" THEN JNull ELSE frame[i][k]]]

\* d["ASIN"], d["name"], ...: a KeyError when d lacks one of the keys
NewItemRaises(d) == ~(Keys \subseteq DOMAIN d)
NewItem(d) == [k \in Keys |-> d[k]]

\* the cell starts: data_list is computed, items_to_insert = []
IngestStart ==
    /\ ing_pc \in {"ready", "done", "InsertError", "KeyError"}
    /\ Len(store) + Len(review_summaries) <= MaxStored
    /\ data_list' = ToJsonRecords(review_summaries)
    /\ items_to_insert' = <<>>
    /\ insert_calls' = <<>>
    /\ ing_i' = 0
    /\ ing_pc' = "loop"
    /\ UNCHANGED <<review_summaries, store>>
    /\ UNCHANGED notIng

\* faulty variant of InsertMany: the exception is swallowed and the cell goes on
InsertManySwallowed(batch, ok, kept, pcAfter) ==
    /\ insert_calls' = Append(insert_calls, [batch |-> batch, raised |-> ~ok])
    /\ store' = IF ok \/ kept THEN store \o batch ELSE store
    /\ ing_pc' = pcAfter

\* collection.data.insert_many(batch): the objects are stored and the call
\* returns, or the call raises; a call that raises may or may not have
\* stored its objects
InsertMany(batch, ok, kept, pcAfter) ==
    /\ insert_calls' = Append(insert_calls, [batch |-> batch, raised |-> ~ok])
    /\ store' = IF ok \/ kept THEN store \o batch ELSE store
    /\ ing_pc' = IF ok THEN pcAfter ELSE "InsertError"

\* faulty variant of IngestStep: the pending list is not cleared after a
\* full batch went in
IngestStepKeepsPending ==
    /\ ing_pc = "loop"
    /\ ing_i < Len(data_list)
    /\ LET d == data_list[ing_i + 1]
       IN IF NewItemRaises(d)
          THEN /\ ing_pc' = "KeyError"
               /\ UNCHANGED <<items_to_insert, insert_calls, store, ing_i>>
          ELSE LET items == Append(items_to_insert, NewItem(d))
               IN /\ ing_i' = ing_i + 1
                  /\ IF Len(items) = BatchSize
                     THEN \E ok \in BOOLEAN, kept \in BOOLEAN :
                            /\ InsertMany(items, ok, kept, "loop")
                            /\ items_to_insert' = items
                     ELSE /\ items_to_insert' = items
                          /\ UNCHANGED <<insert_calls, store, ing_pc>>
    /\ UNCHANGED <<review_summaries, data_list>>
    /\ UNCHANGED notIng

\* one iteration of "for d in data_list"
IngestStep ==
    /\ ing_pc = "loop"
    /\ ing_i < Len(data_list)
    /\ LET d == data_list[ing_i + 1]
       IN IF NewItemRaises(d)
          THEN /\ ing_pc' = "KeyError"
               /\ UNCHANGED <<items_to_insert, insert_calls, store, ing_i>>
          ELSE LET items == Append(items_to_insert, NewItem(d))
               IN /\ ing_i' = ing_i + 1
                  /\ IF Len(items) = BatchSize
                     THEN \E ok \in BOOLEAN, kept \in BOOLEAN :
                            /\ InsertMany(items, ok, kept, "loop")
                            /\ items_to_insert' = IF ok THEN <<>> ELSE items
                     ELSE /\ items_to_insert' = items
                          /\ UNCHANGED <<insert_calls, store, ing_pc>>
    /\ UNCHANGED <<review_summaries, data_list>>
    /\ UNCHANGED notIng

\* faulty variant of IngestRemainder: the final insert is made even when
\* nothing is pending
IngestRemainderUnguarded ==
    /\ ing_pc = "loop"
    /\ ing_i = Len(data_list)
    /\ \E ok \in BOOLEAN, kept \in BOOLEAN :
          InsertMany(items_to_insert, ok, kept, "done")
    /\ UNCHANGED <<review_summaries, data_list, items_to_insert, ing_i>>
    /\ UNCHANGED notIng

\* "if len(items_to_insert) > 0: insert_many(items_to_insert)"
IngestRemainder ==
    /\ ing_pc = "loop"
    /\ ing_i = Len(data_list)
    /\ IF Len(items_to_insert) > 0
       THEN \E ok \in BOOLEAN, kept \in BOOLEAN :
              InsertMany(items_to_insert, ok, kept, "done")
       ELSE /\ ing_pc' = "done"
            /\ UNCHANGED <<insert_calls, store>>
    /\ UNCHANGED <<review_summaries, data_list, items_to_insert, ing_i>>
    /\ UNCHANGED notIng

-----------------------------------------------------------------------------
(* Retrieval and answer: get_context and predict *)

MaxTurns == 2        \* (user, assistant) pairs in the history handed to predict
MaxChunks == 3       \* chunks of one streamed response
PredictLimit == 5    \* get_context(message, limit=5)

\* texts are sequences of tokens
Texts == {<<"q">>, <<"a", "b">>}
Deltas == {<<>>, <<"a">>, <<"b">>}

\* a chunk of the stream: chunk.choices[0].delta.content is None or a string
NoneChunk == [is_none |-> TRUE, content |-> <<>>]
TextChunk(t) == [is_none |-> FALSE, content |-> t]
Chunks == {NoneChunk} \cup {TextChunk(t) : t \in Deltas}

\* str(o.properties): the dump of the property dict, here by its ASIN payload
StrOfProperties(o) == <<"{", ToString(o["ASIN"].v), "}">>

\* faulty variant of Join: every part is followed by the separator
RECURSIVE JoinTrailing(_)
JoinTrailing(parts) ==
    IF parts = <<>> THEN <<>>
    ELSE parts[1] \o <<"\n">> \o JoinTrailing(Tail(parts))

\* "\n".join(parts)
RECURSIVE Join(_)
Join(parts) ==
    IF parts = <<>> THEN <<>>
    ELSE IF Len(parts) = 1 THEN parts[1]
    ELSE parts[1] \o <<"\n">> \o Join(Tail(parts))

\* collection.query.hybrid(query, limit): the store ranks on its own; any
\* sequence of distinct stored objects no longer than limit may come back
HybridResults(objects, limit) ==
    {r \in SeqsUpTo(DOMAIN objects, Min(limit, Len(objects))) :
        \A i, j \in DOMAIN r : i # j => r[i] # r[j]}

\* get_context for one ranking of the store
GetContext(objects, ranking) ==
    Join([i \in DOMAIN ranking |-> StrOfProperties(objects[ranking[i]])])

\* sales_template.format(question, context)
SalesTemplateFormat(question, context) ==
    <<"sales_template:question=">> \o question \o
    <<"sales_template:context=">> \o context \o <<"sales_template:AI">>

Msg(role, content) == [role |-> role, content |-> content]

\* faulty variant of HistoryOpenAI: only the latest pair is kept
HistoryOpenAILastPair(h) ==
    IF h = <<>> THEN <<>>
    ELSE <<Msg("user", h[Len(h)][1]), Msg("assistant", h[Len(h)][2])>>

\* the for loop over history, two appends per pair
RECURSIVE HistoryOpenAI(_)
HistoryOpenAI(h) ==
    IF h = <<>> THEN <<>>
    ELSE HistoryOpenAI(SubSeq(h, 1, Len(h) - 1))
         \o <<Msg("user", h[Len(h)][1]), Msg("assistant", h[Len(h)][2])>>

\* predict up to the chat-completion call: the message list is built, the
\* request is sent; the service raises or opens a finite stream
PredictCall ==
    /\ chat_pc = "idle"
    /\ \E ranking \in HybridResults(store, PredictLimit) :
         history_openai_format' =
            Append(HistoryOpenAI(history),
                   Msg("user", SalesTemplateFormat(message, GetContext(store, ranking))))
    /\ \E ok \in BOOLEAN :
         IF ok
         THEN /\ \E chunks \in SeqsUpTo(Chunks, MaxChunks) : stream' = chunks
              /\ chat_pc' = "streaming"
         ELSE /\ stream' = <<>>
              /\ chat_pc' = "error"
    /\ partial_message' = <<>>
    /\ received' = <<>>
    /\ yielded' = <<>>
    /\ UNCHANGED <<history, message, store>>
    /\ UNCHANGED notChat

\* faulty variant of PredictChunk: the delta alone is yielded
PredictChunkYieldsDelta ==
    /\ chat_pc = "streaming"
    /\ stream # <<>>
    /\ LET chunk == Head(stream)
       IN /\ IF ~chunk.is_none
             THEN /\ partial_message' = partial_message \o chunk.content
                  /\ yielded' = Append(yielded, chunk.content)
             ELSE UNCHANGED <<partial_message, yielded>>
          /\ received' = Append(received, chunk)
    /\ stream' = Tail(stream)
    /\ UNCHANGED <<history, message, store, history_openai_format, chat_pc>>
    /\ UNCHANGED notChat

\* one iteration of "for chunk in response"
PredictChunk ==
    /\ chat_pc = "streaming"
    /\ stream # <<>>
    /\ LET chunk == Head(stream)
       IN /\ IF ~chunk.is_none
             THEN /\ partial_message' = partial_message \o chunk.content
                  /\ yielded' = Append(yielded, partial_message \o chunk.content)
             ELSE UNCHANGED <<partial_message, yielded>>
          /\ received' = Append(received, chunk)
    /\ stream' = Tail(stream)
    /\ UNCHANGED <<history, message, store, history_openai_format, chat_pc>>
    /\ UNCHANGED notChat

\* the stream is exhausted: the generator returns
PredictReturn ==
    /\ chat_pc = "streaming"
    /\ stream = <<>>
    /\ chat_pc' = "returned"
    /\ UNCHANGED <<history, message, store, history_openai_format, stream, received,
                   partial_message, yielded>>
    /\ UNCHANGED notChat

MaxObjects == 3      \* objects in the collection when get_context is called
MaxQueryLimit == 3   \* the limit argument ranges over 1..MaxQueryLimit

\* "response = collection.query.hybrid(query=question, limit=limit)"
GetContextQuery ==
    /\ ctx_pc = "called"
    /\ \E ranking \in HybridResults(store, ctx_limit) :
         ctx_objects' = [i \in DOMAIN ranking |-> store[ranking[i]]]
    /\ ctx_pc' = "queried"
    /\ UNCHANGED <<ctx_limit, ctx_result>>
    /\ UNCHANGED notCtx

\* "return "\n".join([str(o.properties) for o in response.objects])"
GetContextReturn ==
    /\ ctx_pc = "queried"
    /\ ctx_result' = Join([i \in DOMAIN ctx_objects |-> StrOfProperties(ctx_objects[i])])
    /\ ctx_pc' = "returned"
    /\ UNCHANGED <<ctx_limit, ctx_objects>>
    /\ UNCHANGED notCtx

-----------------------------------------------------------------------------
(* Specifications *)

AggIdle ==
    /\ df = <<>> /\ product_record_limit = 0 /\ asin_list_defined = FALSE
    /\ asin_list = <<>> /\ agg_pc = "idle" /\ agg_i = 0
SumIdle ==
    /\ counter = 0 /\ sum_pc = "idle" /\ sum_i = 0 /\ requests = <<>> /\ skipped = <<>>
    /\ answers = <<>> /\ response_asins = <<>>
IngIdle ==
    /\ data_list = <<>> /\ items_to_insert = <<>> /\ ing_pc = "idle" /\ ing_i = 0
    /\ insert_calls = <<>>
ChatIdle ==
    /\ history = <<>> /\ message = <<>> /\ history_openai_format = <<>>
    /\ stream = <<>> /\ received = <<>> /\ partial_message = <<>> /\ yielded = <<>>
    /\ chat_pc = "off"
CtxIdle ==
    /\ ctx_limit = 0 /\ ctx_objects = <<>> /\ ctx_result = <<>> /\ ctx_pc = "off"

\* the aggregation cell, for every table and limit; asin_list holds
\* df.asin.unique() when the reader has run that statement
InitAgg ==
    /\ df \in Datasets
    /\ product_record_limit \in 0..MaxLimit
    /\ asin_list_defined \in BOOLEAN
    /\ asin_list = IF asin_list_defined THEN Unique(AsinColumn(df)) ELSE <<>>
    /\ review_dict = <<>>
    /\ agg_pc = "ready" /\ agg_i = 0
    /\ review_summaries = <<>> /\ store = <<>>
    /\ SumIdle /\ IngIdle /\ ChatIdle /\ CtxIdle

NextAgg == AggregateStart \/ AggregateStep \/ AggregateDone
SpecAgg == InitAgg /\ [][NextAgg]_vars

\* the mappings the summarization cell is run on: distinct ASINs in any
\* order, the p-th product holding n + p - 1 reviews, most recent first
ReviewList(n) == [i \in 1..n |-> i]
ReviewDicts ==
    {[p \in DOMAIN ks |-> [asin |-> ks[p], reviews |-> ReviewList(n + p - 1)]] :
        ks \in {s \in SeqsUpTo(Asins, NumAsins) : \A i, j \in DOMAIN s : i # j => s[i] # s[j]},
        n \in 0..MaxReviews}

InitSum ==
    /\ review_dict \in ReviewDicts
    /\ review_summaries = <<>>
    /\ counter = 0 /\ sum_pc = "ready" /\ sum_i = 0 /\ requests = <<>> /\ skipped = <<>>
    /\ answers = <<>> /\ response_asins = <<>>
    /\ store = <<>>
    /\ AggIdle /\ IngIdle /\ ChatIdle /\ CtxIdle

NextSum == SummarizeStart \/ SummarizeStep \/ SummarizeDone
SpecSum == InitSum /\ [][NextSum]_vars

\* the frames the ingestion cell is run on: any number of well-formed
\* summaries, and the frames of short runs that collected other objects
Frames ==
    {[i \in 1..n |-> FullObject(i)] : n \in 0..MaxRecords}
    \cup {DataFrame([i \in DOMAIN f |-> SetAsin(f[i], i)]) :
             f \in SeqsUpTo({FullObject(WrongAsin), PartialObject}, 2)}

InitIng ==
    /\ review_summaries \in Frames
    /\ store = <<>>
    /\ data_list = <<>> /\ items_to_insert = <<>> /\ ing_pc = "ready" /\ ing_i = 0
    /\ insert_calls = <<>>
    /\ review_dict = <<>>
    /\ AggIdle /\ SumIdle /\ ChatIdle /\ CtxIdle

NextIng == IngestStart \/ IngestStep \/ IngestRemainder
SpecIng == InitIng /\ [][NextIng]_vars

\* predict for every short history and message, over a one-object store
Histories == SeqsUpTo(Texts \X Texts, MaxTurns)

InitChat ==
    /\ history \in Histories
    /\ message \in Texts
    /\ store = <<NewItem(FullObject(1))>>
    /\ history_openai_format = <<>> /\ stream = <<>> /\ received = <<>>
    /\ partial_message = <<>> /\ yielded = <<>> /\ chat_pc = "idle"
    /\ review_dict = <<>> /\ review_summaries = <<>>
    /\ AggIdle /\ SumIdle /\ IngIdle /\ CtxIdle

NextChat == PredictCall \/ PredictChunk \/ PredictReturn
SpecChat == InitChat /\ [][NextChat]_vars

\* get_context for every limit over every small collection; a collection
\* may hold the same product more than once
Collections ==
    {[i \in DOMAIN f |-> NewItem(FullObject(f[i]))] : f \in SeqsUpTo(Asins, MaxObjects)}

InitCtx ==
    /\ store \in Collections
    /\ ctx_limit \in 1..MaxQueryLimit
    /\ ctx_objects = <<>> /\ ctx_result = <<>> /\ ctx_pc = "called"
    /\ review_dict = <<>> /\ review_summaries = <<>>
    /\ AggIdle /\ SumIdle /\ IngIdle /\ ChatIdle

NextCtx == GetContextQuery \/ GetContextReturn
SpecCtx == InitCtx /\ [][NextCtx]_vars

\* the default specification is the summarization cell
Init == InitSum
Next == NextSum
Spec == Init /\ [][Next]_vars

-----------------------------------------------------------------------------
(* Properties *)

RECURSIVE Flatten(_)
Flatten(ss) == IF ss = <<>> THEN <<>> ELSE ss[1] \o Flatten(Tail(ss))

IsSuffix(s, t) == Len(s) <= Len(t) /\ SubSeq(t, Len(t) - Len(s) + 1, Len(t)) = s

\* the ASINs of the collected summaries, in order
SummaryAsins == [i \in DOMAIN review_summaries |-> review_summaries[i]["ASIN"].v]

\* the products visited so far whose answer is in the given classes, in order
RECURSIVE VisitedWith(_, _)
VisitedWith(n, classes) ==
    IF n = 0 THEN <<>>
    ELSE IF answers[n] \in classes
         THEN Append(VisitedWith(n - 1, classes), review_dict[n].asin)
         ELSE VisitedWith(n - 1, classes)

EveryProductAttempted ==
    /\ Len(requests) = sum_i
    /\ \A i \in DOMAIN requests : requests[i].asin = review_dict[i].asin
    /\ sum_pc = "done" => sum_i = Len(review_dict)

\* C1 as stated: the loop attempts every product, and the result holds, in
\* the mapping's order, exactly the products whose LLM call and JSON
\* parsing did not raise
C1_FailureIsolationAsStated ==
    sum_pc \in {"loop", "done"} =>
        /\ EveryProductAttempted
        /\ SummaryAsins = VisitedWith(sum_i, {"object", "non_object"})

\* C1 amended: the loop attempts every product, and the result holds, in the
\* mapping's order, exactly the products whose call returned text that
\* parsed to a JSON object; a product whose call raised, whose text was not
\* JSON, or whose JSON was not an object has no record
C1_FailureIsolation ==
    sum_pc \in {"loop", "done"} =>
        /\ EveryProductAttempted
        /\ SummaryAsins = VisitedWith(sum_i, {"object"})

\* products A and C fail, one of them with JSON that is not an object, B
\* succeeds, and the run has finished with B's record alone
C1_Witness ==
    /\ sum_pc = "done"
    /\ answers = <<"raised", "object", "non_object">>
    /\ Len(review_summaries) = 1
    /\ SummaryAsins = <<review_dict[2].asin>>

\* C4: every request carries exactly the first min(20, n) reviews of its
\* product's n-entry review sequence, never more than 20
C4_Truncation ==
    \A i \in DOMAIN requests :
        LET review_list == review_dict[i].reviews
        IN /\ Len(requests[i].reviews) = Min(TruncLimit, Len(review_list))
           /\ Len(requests[i].reviews) <= TruncLimit
           /\ \A j \in DOMAIN requests[i].reviews : requests[i].reviews[j] = review_list[j]

\* a product with more than 20 reviews was sent with 20 of them, and one
\* with fewer than 20 with all of its reviews
C4_Witness ==
    /\ \E i \in DOMAIN requests :
          Len(review_dict[i].reviews) > TruncLimit /\ Len(requests[i].reviews) = TruncLimit
    /\ \E i \in DOMAIN requests :
          /\ Len(review_dict[i].reviews) \in 1..(TruncLimit - 1)
          /\ Len(requests[i].reviews) = Len(review_dict[i].reviews)

\* C5: one chat-completion call per product visited, in the mapping's order,
\* whether it failed or not; nothing is queued for later; the run ends after
\* the last product with one outcome (a record or a skip) per product
C5_NoRetry ==
    sum_pc \in {"loop", "done"} =>
        /\ Len(requests) = sum_i
        /\ \A i \in DOMAIN requests : requests[i].asin = review_dict[i].asin
        /\ \A i, j \in DOMAIN requests : i # j => requests[i].asin # requests[j].asin
        /\ counter = sum_i
        /\ Len(review_summaries) + Len(skipped) = sum_i
        /\ sum_pc = "done" => Len(requests) = Len(review_dict)

\* a run of three products has ended although its first two calls failed
C5_Witness ==
    /\ sum_pc = "done"
    /\ Len(review_dict) = 3
    /\ answers[1] = "raised" /\ answers[2] = "raised"
    /\ Len(requests) = 3
    /\ Len(skipped) >= 2

\* C8 as stated: every collected record has the five fields of
\* ProductRecord, each a string
C8_CollectedAreProductRecords ==
    \A i \in DOMAIN review_summaries : ProductRecord(review_summaries[i])

\* the calls of the current run of the ingestion cell
BatchOf(k) == insert_calls[k].batch
CeilDiv(n, d) == (n + d - 1) \div d

\* C2: a run that ends without an insert failure has made ceil(N / 100)
\* insert_many calls for its N records: every call but the last carries 100
\* records, the last N mod 100 (100 when N is a positive multiple of 100),
\* and no call is made for N = 0
C2_Batching ==
    ing_pc = "done" =>
        LET N == Len(data_list)
            calls == Len(insert_calls)
        IN /\ calls = CeilDiv(N, BatchSize)
           /\ \A k \in 1..(calls - 1) : Len(BatchOf(k)) = BatchSize
           /\ calls > 0 =>
                Len(BatchOf(calls)) = IF N % BatchSize = 0 THEN BatchSize ELSE N % BatchSize
           /\ N = 0 => calls = 0

\* 201 records went in as 100, 100 and 1
C2_Witness ==
    /\ ing_pc = "done"
    /\ Len(data_list) = 2 * BatchSize + 1
    /\ Len(insert_calls) = 3
    /\ Len(BatchOf(3)) = 1

\* C6: when the k-th insert_many call raises, the cell stops with the
\* exception, the raising call is the last call of the run, and the k-1
\* batches submitted before it are still in the store
C6_IngestionFailure ==
    \A k \in DOMAIN insert_calls :
        insert_calls[k].raised =>
            /\ ing_pc = "InsertError"
            /\ k = Len(insert_calls)
            /\ LET before == Flatten([j \in 1..(k - 1) |-> BatchOf(j)])
               IN \/ IsSuffix(before, store)
                  \/ IsSuffix(before \o BatchOf(k), store)

\* the second call of a run raised after the first batch was stored
C6_Witness ==
    /\ ing_pc = "InsertError"
    /\ Len(insert_calls) = 2
    /\ insert_calls[2].raised
    /\ Len(store) = BatchSize
    /\ store = BatchOf(1)

\* C7 as stated: every stored object has a string ASIN that no other stored
\* object has
C7_StoreUnique ==
    /\ \A i \in DOMAIN store : store[i]["ASIN"].t = "str"
    /\ \A i, j \in DOMAIN store : i # j => store[i]["ASIN"] # store[j]["ASIN"]

\* the non-None deltas among the chunks received, in arrival order
Arrived == SelectSeq(received, LAMBDA c : ~c.is_none)

\* the concatenation of the first n arrived deltas
RECURSIVE ConcatFirst(_)
ConcatFirst(n) == IF n = 0 THEN <<>> ELSE ConcatFirst(n - 1) \o Arrived[n].content

\* C9: predict has yielded one string per received chunk whose delta is not
\* None, the k-th being the concatenation of the first k such deltas; each
\* yielded string extends the one before, and when the generator returns the
\* whole stream was consumed and the last string is the concatenation of all
C9_Streaming ==
    chat_pc \in {"streaming", "returned"} =>
        /\ Len(yielded) = Len(Arrived)
        /\ \A k \in DOMAIN yielded : yielded[k] = ConcatFirst(k)
        /\ \A k \in 2..Len(yielded) :
              SubSeq(yielded[k], 1, Len(yielded[k - 1])) = yielded[k - 1]
        /\ chat_pc = "returned" =>
              /\ stream = <<>>
              /\ yielded # <<>> => yielded[Len(yielded)] = ConcatFirst(Len(Arrived))

\* a stream of a None chunk and two text chunks was consumed: two strings
\* were yielded, the second longer than the first
C9_Witness ==
    /\ chat_pc = "returned"
    /\ Len(received) = 3
    /\ \E k \in DOMAIN received : received[k].is_none
    /\ Len(yielded) = 2
    /\ yielded[1] = <<"a">> /\ yielded[2] = <<"a", "b">>

\* C10: the message list sent for a history of n pairs has 2n + 1 entries:
\* the pairs in order, each as a user message then an assistant message with
\* the pair's texts, then one user message made of the template, the
\* question and a retrieved context
C10_ChatHistory ==
    chat_pc \in {"streaming", "returned", "error"} =>
        LET n == Len(history)
            sent == history_openai_format
        IN /\ Len(sent) = 2 * n + 1
           /\ \A p \in 1..n :
                /\ sent[2 * p - 1] = [role |-> "user", content |-> history[p][1]]
                /\ sent[2 * p] = [role |-> "assistant", content |-> history[p][2]]
           /\ sent[2 * n + 1].role = "user"
           /\ \E ranking \in HybridResults(store, PredictLimit) :
                sent[2 * n + 1].content =
                    <<"sales_template:question=">> \o message
                    \o <<"sales_template:context=">> \o GetContext(store, ranking)
                    \o <<"sales_template:AI">>

\* a request for a history of two different pairs went out with five messages
C10_Witness ==
    /\ chat_pc = "streaming"
    /\ Len(history) = 2
    /\ history[1] # history[2]
    /\ Len(history_openai_format) = 5

\* the distinct ASINs of the table in order of first appearance
FirstAppearances ==
    SelectSeq([i \in DOMAIN df |-> i],
              LAMBDA i : \A j \in 1..(i - 1) : df[j].asin # df[i].asin)
TimeOfText(k) == df[k].unixReviewTime

\* what C3 asks of the mapping once the cell has run
AggregatorContract ==
    LET distinct == FirstAppearances
        want == Min(product_record_limit, Len(distinct))
    IN /\ Len(review_dict) = want
       /\ \A p \in 1..want :
            LET entry == review_dict[p]
            IN /\ entry.asin = df[distinct[p]].asin
               /\ Range(entry.reviews) = {i \in DOMAIN df : df[i].asin = entry.asin}
               /\ Len(entry.reviews) = Cardinality(Range(entry.reviews))
               /\ \A i, j \in DOMAIN entry.reviews :
                     i < j => TimeOfText(entry.reviews[i]) >= TimeOfText(entry.reviews[j])
       /\ df = <<>> => review_dict = <<>>

\* C3 as stated: after the cell has run, the mapping has min(L, distinct
\* products) keys, the first distinct ASINs in order of first appearance,
\* each with all reviews of its product by timestamp descending
C3_Aggregator ==
    agg_pc \in {"done", "NameError"} => AggregatorContract

\* the same contract in the kernels where asin_list is bound to df.asin.unique()
AggregatorContractWhenBound ==
    agg_pc = "done" => AggregatorContract

\* the segments of a text between its "\n" tokens ("".split("\n") is [""])
RECURSIVE SplitLines(_)
SplitLines(text) ==
    IF \A i \in DOMAIN text : text[i] # "\n" THEN <<text>>
    ELSE LET cut == CHOOSE i \in DOMAIN text :
                        text[i] = "\n" /\ \A j \in 1..(i - 1) : text[j] # "\n"
         IN <<SubSeq(text, 1, cut - 1)>> \o SplitLines(SubSeq(text, cut + 1, Len(text)))

\* C11: the context returned by get_context for at most K matches holds
\* exactly one entry per match, the dump of its properties, in the order the
\* store ranked them, separated by single newlines with none leading or
\* trailing; no match gives the empty string
C11_QueryContext ==
    ctx_pc = "returned" =>
        LET n == Len(ctx_objects)
        IN /\ n <= ctx_limit
           /\ n = 0 => ctx_result = <<>>
           /\ n > 0 =>
                /\ SplitLines(ctx_result) = [i \in 1..n |-> <<"{", ToString(ctx_objects[i]["ASIN"].v), "}">>]
                /\ Cardinality({i \in DOMAIN ctx_result : ctx_result[i] = "\n"}) = n - 1
                /\ ctx_result[1] # "\n" /\ ctx_result[Len(ctx_result)] # "\n"

\* two matches came back in an order that is not the collection's, and the
\* context is their two dumps around one newline
C11_Witness ==
    /\ ctx_pc = "returned"
    /\ Len(store) >= 2
    /\ ctx_objects = <<store[2], store[1]>>
    /\ store[1] # store[2]
    /\ ctx_result = <<"{", ToString(store[2]["ASIN"].v), "}", "\n",
                      "{", ToString(store[1]["ASIN"].v), "}">>

\* the calls whose answer was a JSON object, in call order
ObjectCalls == SelectSeq([c \in DOMAIN answers |-> c], LAMBDA c : answers[c] = "object")

\* C12: every collected record carries as its ASIN the key of the product
\* whose reviews were sent in the call that produced it, whatever ASIN the
\* answer held; the records of one run have pairwise distinct ASINs
C12_AsinBinding ==
    sum_pc \in {"loop", "done"} =>
        /\ Len(review_summaries) = Len(ObjectCalls)
        /\ \A i \in DOMAIN review_summaries :
             LET c == ObjectCalls[i]
             IN /\ review_summaries[i]["ASIN"] = JStr(requests[c].asin)
                /\ requests[c].asin = review_dict[c].asin
                /\ requests[c].reviews = PySlice(review_dict[c].reviews, 0, TruncLimit)
        /\ \A i, j \in DOMAIN review_summaries :
             i # j => review_summaries[i]["ASIN"] # review_summaries[j]["ASIN"]

\* a finished run collected a record whose answer named another ASIN and a
\* record whose answer named none; each carries its product's key
C12_Witness ==
    /\ sum_pc = "done"
    /\ \E i, j \in DOMAIN review_summaries :
         /\ response_asins[ObjectCalls[i]] = WrongAsin
         /\ response_asins[ObjectCalls[j]] = 0
         /\ review_summaries[i]["ASIN"].v = review_dict[ObjectCalls[i]].asin
         /\ review_summaries[j]["ASIN"].v = review_dict[ObjectCalls[j]].asin

\* the batches submitted so far by the current run, end to end
Submitted == Flatten([k \in DOMAIN insert_calls |-> BatchOf(k)])

\* the five-key item of each of the first n rows handed to the cell
ItemsOfRows(n) ==
    [i \in 1..n |-> [k \in Keys |-> IF review_summaries[i][k].t = "nan" THEN JNull
                                     ELSE review_summaries[i][k]]]

\* C13: inside the loop, while no insert_many call has failed, the batches
\* submitted so far followed by the pending items are the items of the rows
\* visited, in order, each once; at the end of the run the batches alone are
\* the whole input, which for well-formed records is the record sequence
\* itself; no batch is empty or larger than 100
C13_Conservation ==
    /\ ing_pc = "loop" =>
         /\ Submitted \o items_to_insert = ItemsOfRows(ing_i)
         /\ Len(items_to_insert) < BatchSize
    /\ ing_pc = "done" =>
         /\ Submitted = ItemsOfRows(Len(review_summaries))
         /\ (\A i \in DOMAIN review_summaries : ProductRecord(review_summaries[i]))
               => Submitted = review_summaries
    /\ \A k \in DOMAIN insert_calls : Len(BatchOf(k)) \in 1..BatchSize

\* 200 well-formed records went in as two full batches, the second starting
\* right after the clear, and the batches end to end are the records
C13_Witness ==
    /\ ing_pc = "done"
    /\ Len(review_summaries) = 2 * BatchSize
    /\ Len(insert_calls) = 2
    /\ BatchOf(2)[1] = review_summaries[BatchSize + 1]
    /\ Submitted = review_summaries

====
